---- MODULE Spec2Model ----
(***************************************************************************)
(* Model of the tag catalog of ms-creator-mcp-server: DatabaseLoader,      *)
(* DatabaseHandler and DatabaseFormatter (src/src/database.ts) and the     *)
(* seven MCP tools built on them (server.ts).                              *)
(*                                                                         *)
(* JavaScript strings are TLA+ strings.  A value of type `string | null`   *)
(* is a sequence of length at most one: <<>> is null, <<s>> is the string  *)
(* s.  A JavaScript object used as a map is the sequence of its own        *)
(* properties <<key, value>> in insertion order; property enumeration and  *)
(* property lookup follow the language (integer-like keys first, lookup    *)
(* falling back to Object.prototype).                                      *)
(***************************************************************************)
EXTENDS Integers, Sequences, FiniteSets, TLC

VARIABLES raw, started, formattedData, categories, dbByCategory,
          dbBySubCategory, call, ret, mutations

vars == <<raw, started, formattedData, categories, dbByCategory,
          dbBySubCategory, call, ret, mutations>>

(***************************************************************************)
(* Bounds of the model.                                                    *)
(***************************************************************************)
\* total number of tag entries in output.json
MaxEntries == 2
\* number of arrays a mutating caller changes
MaxMutations == 1

(***************************************************************************)
(* Strings.                                                                *)
(***************************************************************************)
Null == <<>>

Some(s) == <<s>>

\* String.prototype.includes
Includes(s, k) ==
  \E i \in 0..(Len(s) - Len(k)) : SubSeq(s, i + 1, i + Len(k)) = k

\* String.prototype.startsWith
StartsWith(s, p) == Len(s) >= Len(p) /\ SubSeq(s, 1, Len(p)) = p

\* Array.prototype.join
RECURSIVE Join(_, _)
Join(lines, sep) ==
  IF Len(lines) = 0 THEN ""
  ELSE IF Len(lines) = 1 THEN lines[1]
  ELSE lines[1] \o sep \o Join(Tail(lines), sep)

(***************************************************************************)
(* JavaScript objects used as maps.                                        *)
(***************************************************************************)
\* the property names every object literal inherits from Object.prototype
ObjectPrototypeKeys ==
  {"constructor", "toString", "toLocaleString", "valueOf", "hasOwnProperty",
   "isPrototypeOf", "propertyIsEnumerable", "__proto__", "__defineGetter__",
   "__defineSetter__", "__lookupGetter__", "__lookupSetter__"}

DigitChars == "0123456789"

IsDigit(c) == \E d \in 1..Len(DigitChars) : SubSeq(DigitChars, d, d) = c

DigitOf(c) == CHOOSE d \in 1..Len(DigitChars) : SubSeq(DigitChars, d, d) = c

\* a < b for two digit strings of the same length
LexLess(a, b) ==
  \E i \in 1..Len(a) :
    /\ SubSeq(a, 1, i - 1) = SubSeq(b, 1, i - 1)
    /\ DigitOf(SubSeq(a, i, i)) < DigitOf(SubSeq(b, i, i))

\* a < b for two canonical numeric strings
NumLess(a, b) == Len(a) < Len(b) \/ (Len(a) = Len(b) /\ LexLess(a, b))

\* the largest array index, 2^32 - 2
MaxArrayIndex == "4294967294"

\* a property key is an array index when it is the canonical decimal form
\* of an integer in 0 .. 2^32 - 2
IsArrayIndex(k) ==
  /\ Len(k) >= 1
  /\ \A i \in 1..Len(k) : IsDigit(SubSeq(k, i, i))
  /\ (Len(k) = 1 \/ SubSeq(k, 1, 1) # "0")
  /\ (k = MaxArrayIndex \/ NumLess(k, MaxArrayIndex))

OwnKeys(obj) == [i \in 1..Len(obj) |-> obj[i][1]]

HasOwn(obj, k) == \E i \in 1..Len(obj) : obj[i][1] = k

OwnValue(obj, k) == obj[CHOOSE i \in 1..Len(obj) : obj[i][1] = k][2]

\* obj[k] = v: an existing property keeps its place, a new one goes last
SetProperty(obj, k, v) ==
  IF HasOwn(obj, k)
  THEN [i \in 1..Len(obj) |-> IF obj[i][1] = k THEN <<k, v>> ELSE obj[i]]
  ELSE Append(obj, <<k, v>>)

\* the order in which Object.keys and Object.entries enumerate: array
\* indices in ascending numeric order, then the other keys in insertion order
OrdinaryOwnPropertyKeys(obj) ==
  LET keys == OwnKeys(obj)
      idx == {keys[i] : i \in {j \in 1..Len(keys) : IsArrayIndex(keys[j])}}
      sortedIdx == [i \in 1..Cardinality(idx) |->
                      CHOOSE k \in idx :
                        Cardinality({j \in idx : NumLess(j, k)}) = i - 1]
      IsName(k) == ~IsArrayIndex(k)
  IN  sortedIdx \o SelectSeq(keys, IsName)

ObjectKeys(obj) == OrdinaryOwnPropertyKeys(obj)

ObjectEntries(obj) ==
  LET keys == OrdinaryOwnPropertyKeys(obj)
  IN  [i \in 1..Len(keys) |-> <<keys[i], OwnValue(obj, keys[i])>>]

\* obj[k] read: an own property, else what Object.prototype holds under k
\* (a function or, for __proto__, Object.prototype itself), else undefined
GetProperty(obj, k) ==
  IF HasOwn(obj, k) THEN [kind |-> "own", val |-> OwnValue(obj, k)]
  ELSE IF k \in ObjectPrototypeKeys THEN [kind |-> "inherited", val |-> <<k>>]
  ELSE [kind |-> "undefined", val |-> <<>>]

\* the inherited functions whose length property is 0
ZeroLengthFunctions == {"toString", "toLocaleString", "valueOf"}

(***************************************************************************)
(* The raw source, output.json: a list of categories, each with a name, a  *)
(* link and a tags object, written here as its keys in source order.       *)
(***************************************************************************)
CategoryNames == {"A", "B", "constructor"}

CategoryLinks == {"/c"}

SubCategoryNames == {"x", "9", "10"}

TagEntries ==
  { [tag |-> "$a", description |-> "ab", link |-> Some("/t"),
     sample_code |-> "c", html_output_image |-> "bp"],
    [tag |-> ".list[i].a", description |-> "Ab", link |-> Null,
     sample_code |-> ""] }

TagLists(b) == UNION {[1..m -> TagEntries] : m \in 1..b}

\* tags objects holding at most b tag entries in all, keys drawn from ks
RECURSIVE TagsObjects(_, _)
TagsObjects(b, ks) ==
  UNION { UNION { {<< <<k, l>> >>} \cup
                  { << <<k, l>> >> \o rest :
                      rest \in TagsObjects(b - Len(l), ks \ {k}) } :
                  l \in TagLists(b) } :
          k \in ks }

RECURSIVE CountEntries(_)
CountEntries(tags) ==
  IF tags = <<>> THEN 0 ELSE Len(tags[1][2]) + CountEntries(Tail(tags))

\* raw sources holding at most b tag entries in all
RECURSIVE RawSources(_)
RawSources(b) ==
  {<<>>} \cup
  UNION { UNION { { <<[name |-> c[1], link |-> c[2], tags |-> t]>> \o rest :
                      rest \in RawSources(b - CountEntries(t)) } :
                  t \in TagsObjects(b, SubCategoryNames) } :
          c \in CategoryNames \X CategoryLinks }

(***************************************************************************)
(* DatabaseLoader.                                                         *)
(***************************************************************************)
\* tagData.<key> ?? null, for an optional key of a raw tag entry
NullishCoalesce(tagData, key) ==
  IF key \in DOMAIN tagData THEN Some(tagData[key]) ELSE Null

ToRecord(category, categorySubName, tagData) ==
  [ tagName            |-> tagData.tag,
    categoryName       |-> category.name,
    categorySubName    |-> categorySubName,
    tagDescription     |-> tagData.description,
    categoryLink       |-> category.link,
    tagLink            |-> tagData.link,
    tagSampleCode      |-> NullishCoalesce(tagData, "sample_code"),
    tagHtmlOutputImage |-> NullishCoalesce(tagData, "html_output_image") ]

RECURSIVE Concat(_)
Concat(seqs) == IF seqs = <<>> THEN <<>> ELSE seqs[1] \o Concat(Tail(seqs))

\* the inner two loops of transform: one category's records
TransformCategory(category) ==
  LET entries == ObjectEntries(category.tags)
  IN  Concat([e \in 1..Len(entries) |->
                [i \in 1..Len(entries[e][2]) |->
                   ToRecord(category, entries[e][1], entries[e][2][i])]])

transform(rawCategories) ==
  Concat([c \in 1..Len(rawCategories) |-> TransformCategory(rawCategories[c])])

(***************************************************************************)
(* DatabaseHandler: construction.  A reduce either yields its accumulator  *)
(* or throws a TypeError, which ends the constructor and, with it, the     *)
(* start of the server.                                                    *)
(***************************************************************************)
\* [...new Set(names)]: each value once, at its first occurrence
RECURSIVE UniqueInOrder(_)
UniqueInOrder(names) ==
  IF names = <<>> THEN <<>>
  ELSE LET init == UniqueInOrder(SubSeq(names, 1, Len(names) - 1))
           last == names[Len(names)]
       IN  IF \E i \in 1..Len(init) : init[i] = last THEN init
           ELSE Append(init, last)

BuildCategories(records) ==
  UniqueInOrder([i \in 1..Len(records) |-> records[i].categoryName])

\* ByCategoryStep with unshift in place of push
ByCategoryStepUnshift(acc, record) ==
  LET category == record.categoryName
      cur == GetProperty(acc.obj, category)
  IN  IF acc.threw THEN acc
      ELSE IF cur.kind = "undefined"
        THEN [acc EXCEPT !.obj = SetProperty(@, category, <<record>>)]
      ELSE IF cur.kind = "own"
        THEN [acc EXCEPT !.obj = SetProperty(@, category, <<record>> \o cur.val)]
      ELSE [acc EXCEPT !.threw = TRUE]

\* one step of the reduce that builds dbByCategory
ByCategoryStep(acc, record) ==
  LET category == record.categoryName
      cur == GetProperty(acc.obj, category)
  IN  IF acc.threw THEN acc
      ELSE IF cur.kind = "undefined"
        THEN [acc EXCEPT !.obj = SetProperty(@, category, <<record>>)]
      ELSE IF cur.kind = "own"
        THEN [acc EXCEPT !.obj = SetProperty(@, category, Append(cur.val, record))]
      \* an inherited value is truthy and has no push
      ELSE [acc EXCEPT !.threw = TRUE]

RECURSIVE BuildByCategory(_)
BuildByCategory(records) ==
  IF records = <<>> THEN [threw |-> FALSE, obj |-> <<>>]
  ELSE ByCategoryStep(BuildByCategory(SubSeq(records, 1, Len(records) - 1)),
                      records[Len(records)])

\* one step of the reduce that builds dbBySubCategory
BySubCategoryStep(acc, record) ==
  LET category == record.categoryName
      subCategory == record.categorySubName
      outer == GetProperty(acc.obj, category)
      inner == IF outer.kind = "own" THEN GetProperty(outer.val, subCategory)
               ELSE IF subCategory \in ObjectPrototypeKeys
                 THEN [kind |-> "inherited", val |-> <<subCategory>>]
               ELSE [kind |-> "undefined", val |-> <<>>]
      sub == IF outer.kind = "own" THEN outer.val ELSE <<>>
  IN  IF acc.threw THEN acc
      \* acc[category] is an inherited value: the sub-category array would be
      \* stored on Object.prototype itself; the first reduce has thrown before
      ELSE IF outer.kind = "inherited" THEN [acc EXCEPT !.threw = TRUE]
      ELSE IF inner.kind = "undefined"
        THEN [acc EXCEPT !.obj =
                SetProperty(@, category, SetProperty(sub, subCategory, <<record>>))]
      ELSE IF inner.kind = "own"
        THEN [acc EXCEPT !.obj =
                SetProperty(@, category,
                            SetProperty(sub, subCategory, Append(inner.val, record)))]
      ELSE [acc EXCEPT !.threw = TRUE]

RECURSIVE BuildBySubCategory(_)
BuildBySubCategory(records) ==
  IF records = <<>> THEN [threw |-> FALSE, obj |-> <<>>]
  ELSE BySubCategoryStep(BuildBySubCategory(SubSeq(records, 1, Len(records) - 1)),
                         records[Len(records)])

\* whether new DatabaseHandler(loader) throws on these records
ConstructorThrows(records) ==
  IF BuildByCategory(records).threw THEN TRUE
  ELSE BuildBySubCategory(records).threw

\* the handler's dbRaw is the very array the loader holds
dbRaw == formattedData

(***************************************************************************)
(* DatabaseLoader.load and the DatabaseHandler queries.  A result is       *)
(*   kind "records" or "names": an array, val its elements, ref the        *)
(*        internal array it is (<<>> for a fresh array);                   *)
(*   kind "inherited": a value found on Object.prototype, val its key;     *)
(*   kind "throw": a TypeError; kind "text": a string.                     *)
(***************************************************************************)
Fresh(kind, val) == [kind |-> kind, val |-> val, ref |-> <<>>]

Shared(kind, val, ref) == [kind |-> kind, val |-> val, ref |-> ref]

Thrown == [kind |-> "throw", val |-> <<>>, ref |-> <<>>]

load == Shared("records", formattedData, <<"formattedData">>)

getCategories == Shared("names", categories, <<"categories">>)

getSubCategories(categoryName) ==
  LET sub == GetProperty(dbBySubCategory, categoryName)
  IN  \* Object.keys of a function, of Object.prototype or of [] is []
      Fresh("names", IF sub.kind = "own" THEN ObjectKeys(sub.val) ELSE <<>>)

searchByCategory(category) ==
  LET found == GetProperty(dbByCategory, category)
  IN  IF found.kind = "own"
        THEN Shared("records", found.val, <<"dbByCategory", category>>)
      ELSE IF found.kind = "inherited"
        THEN [kind |-> "inherited", val |-> found.val, ref |-> <<>>]
      ELSE Fresh("records", <<>>)

\* searchBySubCategory answering with the whole category
searchBySubCategoryWholeCategory(category, subCategory) ==
  LET found == GetProperty(dbByCategory, category)
  IN  IF found.kind = "undefined" THEN Thrown
      ELSE IF found.kind = "own"
        THEN Shared("records", found.val, <<"dbByCategory", category>>)
      ELSE Fresh("records", <<>>)

searchBySubCategory(category, subCategory) ==
  LET outer == GetProperty(dbBySubCategory, category)
      inner == IF outer.kind = "own" THEN GetProperty(outer.val, subCategory)
               ELSE IF subCategory \in ObjectPrototypeKeys
                 THEN [kind |-> "inherited", val |-> <<subCategory>>]
               ELSE [kind |-> "undefined", val |-> <<>>]
  IN  \* undefined[subCategory]
      IF outer.kind = "undefined" THEN Thrown
      ELSE IF inner.kind = "own"
        THEN Shared("records", inner.val,
                    <<"dbBySubCategory", category, subCategory>>)
      ELSE IF inner.kind = "inherited"
        THEN [kind |-> "inherited", val |-> inner.val, ref |-> <<>>]
      ELSE Fresh("records", <<>>)

\* searchByTagName with find in place of filter
searchByTagNameFirstOnly(tagName) ==
  LET Match(record) == record.tagName = tagName
      all == SelectSeq(dbRaw, Match)
  IN  Fresh("records", IF all = <<>> THEN <<>> ELSE <<all[1]>>)

searchByTagName(tagName) ==
  LET Match(record) == record.tagName = tagName
  IN  Fresh("records", SelectSeq(dbRaw, Match))

\* searchByTagDescription looking at the description only
searchByTagDescriptionOnly(keyword) ==
  LET Match(record) == Includes(record.tagDescription, keyword)
  IN  Fresh("records", SelectSeq(dbRaw, Match))

searchByTagDescription(keyword) ==
  LET Match(record) ==
        \/ Includes(record.tagDescription, keyword)
        \/ /\ record.tagHtmlOutputImage # Null
           /\ Includes(record.tagHtmlOutputImage[1], keyword)
  IN  Fresh("records", SelectSeq(dbRaw, Match))

(***************************************************************************)
(* DatabaseFormatter.  `a || b` takes b when a is null or the empty string.*)
(***************************************************************************)
OrElse(v, fallback) == IF v = Null \/ v = Some("") THEN fallback ELSE v[1]

Bullets(names) == Join([i \in 1..Len(names) |-> "- " \o names[i]], "\n")

CategoriesText(names) ==
  IF Len(names) = 0 THEN "Error: No categories found"
  ELSE "## Categories\n" \o Bullets(names)

SubCategoriesText(names) ==
  IF Len(names) = 0 THEN "Error: No sub categories found"
  ELSE "## Sub categories\n" \o Bullets(names)

\* TagInfoBlock without the "### Sub Category" lines
TagInfoBlockNoSubCategory(tag) ==
  IF ~StartsWith(tag.tagName, ".list[i]")
  THEN Join(<< "## " \o tag.tagName,
               tag.tagDescription,
               "",
               "### Category",
               tag.categoryName,
               "### Code Example",
               OrElse(tag.tagSampleCode, "No example provided"),
               "### Output Example",
               OrElse(tag.tagHtmlOutputImage, "No example provided") >>, "\n")
  ELSE Join(<< "## " \o ("$item.group" \o tag.tagName),
               tag.tagDescription,
               "",
               "### Category",
               tag.categoryName,
               "### Code Example",
               OrElse(tag.tagSampleCode, "No example provided") >>, "\n")

\* TagInfoBlock without the special case of ".list[i]" tag names
TagInfoBlockNoSpecialCase(tag) ==
  Join(<< "## " \o tag.tagName,
          tag.tagDescription,
          "",
          "### Category",
          tag.categoryName,
          "### Sub Category",
          tag.categorySubName,
          "### Code Example",
          OrElse(tag.tagSampleCode, "No example provided"),
          "### Output Example",
          OrElse(tag.tagHtmlOutputImage, "No example provided") >>, "\n")

TagInfoBlock(tag) ==
  IF ~StartsWith(tag.tagName, ".list[i]")
  THEN Join(<< "## " \o tag.tagName,
               tag.tagDescription,
               "",
               "### Category",
               tag.categoryName,
               "### Sub Category",
               tag.categorySubName,
               "### Code Example",
               OrElse(tag.tagSampleCode, "No example provided"),
               "### Output Example",
               OrElse(tag.tagHtmlOutputImage, "No example provided") >>, "\n")
  ELSE Join(<< "## " \o ("$item.group" \o tag.tagName),
               tag.tagDescription,
               "",
               "### Category",
               tag.categoryName,
               "### Sub Category",
               tag.categorySubName,
               "### Code Example",
               OrElse(tag.tagSampleCode, "No example provided") >>, "\n")

TagInfoText(tags) ==
  IF Len(tags) = 0 THEN "Error: No tags found"
  ELSE Join([i \in 1..Len(tags) |-> TagInfoBlock(tags[i])], "\n\n")

SourceInfoBlock(tag) ==
  Join(<< "## " \o tag.tagName,
          tag.tagDescription,
          "",
          "### Category",
          tag.categoryName,
          "### Sub Category",
          tag.categorySubName,
          "### Category source link",
          tag.categoryLink,
          "### Tag source link",
          OrElse(tag.tagLink, "No tag source provided") >>, "\n")

SourceInfoText(tags) ==
  IF Len(tags) = 0 THEN "Error: No tags found"
  ELSE Join([i \in 1..Len(tags) |-> SourceInfoBlock(tags[i])], "\n\n")

\* a formatter applied to the value a query returned.  On an inherited
\* function its length decides the first test, and .map is no function
FormatValue(v, text, sentinel) ==
  IF v.kind \in {"records", "names"} THEN Fresh("text", text)
  ELSE IF v.val[1] \in ZeroLengthFunctions THEN Fresh("text", sentinel)
  ELSE Thrown

formatAsCategories(v) ==
  FormatValue(v, CategoriesText(v.val), "Error: No categories found")

formatAsSubCategories(v) ==
  FormatValue(v, SubCategoriesText(v.val), "Error: No sub categories found")

formatAsTagInfo(v) ==
  FormatValue(v, IF v.kind = "records" THEN TagInfoText(v.val) ELSE "",
              "Error: No tags found")

formatAsSourceInfo(v) ==
  FormatValue(v, IF v.kind = "records" THEN SourceInfoText(v.val) ELSE "",
              "Error: No tags found")

\* a tool handler: the query, then the formatter; an exception of either
\* leaves the handler
ToolResponse(searchResult, respondResult) ==
  IF searchResult.kind = "throw" THEN Thrown ELSE respondResult

(***************************************************************************)
(* Arguments of the calls.                                                 *)
(***************************************************************************)
TagNameArgs == {"$a", "$A", ".list[i].a"}

KeywordArgs == {"", "b", "p", "A"}

Idle == <<"idle">>

NoValue == [kind |-> "none", val |-> <<>>, ref |-> <<>>]

(***************************************************************************)
(* The state after the module has been loaded.                             *)
(***************************************************************************)
Init ==
  /\ raw \in RawSources(MaxEntries)
  /\ formattedData = transform(raw)
  /\ started = IF ConstructorThrows(formattedData) THEN "failed" ELSE "ready"
  /\ categories = IF started = "ready" THEN BuildCategories(formattedData)
                  ELSE <<>>
  /\ dbByCategory = IF started = "ready" THEN BuildByCategory(formattedData).obj
                    ELSE <<>>
  /\ dbBySubCategory = IF started = "ready"
                       THEN BuildBySubCategory(formattedData).obj
                       ELSE <<>>
  /\ call = Idle
  /\ ret = NoValue
  /\ mutations = 0

state == <<raw, started, formattedData, categories, dbByCategory,
           dbBySubCategory, mutations>>

\* a call made while no other is in progress
Calls(c, r) ==
  /\ started = "ready"
  /\ call = Idle
  /\ call' = c
  /\ ret' = r
  /\ UNCHANGED state

Load == Calls(<<"load">>, load)

GetCategories == Calls(<<"getCategories">>, getCategories)

GetSubCategories ==
  \E c \in CategoryNames : Calls(<<"getSubCategories", c>>, getSubCategories(c))

\* searchByCategory with `this.dbByCategory[category] ||= []`: a miss is stored
SearchByCategoryStoringMiss ==
  \E c \in CategoryNames :
    /\ started = "ready"
    /\ call = Idle
    /\ call' = <<"searchByCategory", c>>
    /\ ret' = searchByCategory(c)
    /\ dbByCategory' = IF GetProperty(dbByCategory, c).kind = "undefined"
                       THEN SetProperty(dbByCategory, c, <<>>)
                       ELSE dbByCategory
    /\ UNCHANGED <<raw, started, formattedData, categories, dbBySubCategory,
                   mutations>>

SearchByCategory ==
  \E c \in CategoryNames : Calls(<<"searchByCategory", c>>, searchByCategory(c))

SearchBySubCategory ==
  \E c \in CategoryNames, s \in SubCategoryNames :
    Calls(<<"searchBySubCategory", c, s>>, searchBySubCategory(c, s))

SearchByTagName ==
  \E n \in TagNameArgs : Calls(<<"searchByTagName", n>>, searchByTagName(n))

SearchByTagDescription ==
  \E k \in KeywordArgs :
    Calls(<<"searchByTagDescription", k>>, searchByTagDescription(k))

\* a formatter applied to the value the last query returned
Formats(name, kinds, r) ==
  /\ started = "ready"
  /\ call # Idle
  /\ ret.kind \in kinds
  /\ call' = <<name>> \o call
  /\ ret' = r
  /\ UNCHANGED state

FormatAsCategories ==
  Formats("formatAsCategories", {"names"}, formatAsCategories(ret))

FormatAsSubCategories ==
  Formats("formatAsSubCategories", {"names"}, formatAsSubCategories(ret))

FormatAsTagInfo ==
  Formats("formatAsTagInfo", {"records", "inherited"}, formatAsTagInfo(ret))

FormatAsSourceInfo ==
  Formats("formatAsSourceInfo", {"records", "inherited"}, formatAsSourceInfo(ret))

\* the seven tools of the server; zod admits non-empty strings only
ToolCategories ==
  Calls(<<"ms_creator_tag_categories">>,
        ToolResponse(getCategories, formatAsCategories(getCategories)))

ToolSubCategories ==
  \E c \in CategoryNames \ {""} :
    Calls(<<"ms_creator_tag_sub_categories", c>>,
          ToolResponse(getSubCategories(c),
                       formatAsSubCategories(getSubCategories(c))))

ToolSearchByCategory ==
  \E c \in CategoryNames \ {""} :
    Calls(<<"ms_creator_tag_search_by_category", c>>,
          ToolResponse(searchByCategory(c), formatAsTagInfo(searchByCategory(c))))

ToolSearchBySubCategory ==
  \E c \in CategoryNames \ {""}, s \in SubCategoryNames \ {""} :
    Calls(<<"ms_creator_tag_search_by_sub_category", c, s>>,
          ToolResponse(searchBySubCategory(c, s),
                       formatAsTagInfo(searchBySubCategory(c, s))))

ToolSearchByKeyword ==
  \E k \in KeywordArgs \ {""} :
    Calls(<<"ms_creator_tag_search_by_keyword", k>>,
          ToolResponse(searchByTagDescription(k),
                       formatAsTagInfo(searchByTagDescription(k))))

ToolGetDetail ==
  \E n \in TagNameArgs \ {""} :
    Calls(<<"ms_creator_tag_get_detail", n>>,
          ToolResponse(searchByTagName(n), formatAsTagInfo(searchByTagName(n))))

ToolGetSource ==
  \E n \in TagNameArgs \ {""} :
    Calls(<<"ms_creator_tag_get_source", n>>,
          ToolResponse(searchByTagName(n), formatAsSourceInfo(searchByTagName(n))))

\* the caller is done with the value it was given
Return ==
  /\ call # Idle
  /\ call' = Idle
  /\ ret' = NoValue
  /\ UNCHANGED state

Next ==
  \/ Load
  \/ GetCategories
  \/ GetSubCategories
  \/ SearchByCategory
  \/ SearchBySubCategory
  \/ SearchByTagName
  \/ SearchByTagDescription
  \/ FormatAsCategories
  \/ FormatAsSubCategories
  \/ FormatAsTagInfo
  \/ FormatAsSourceInfo
  \/ ToolCategories
  \/ ToolSubCategories
  \/ ToolSearchByCategory
  \/ ToolSearchBySubCategory
  \/ ToolSearchByKeyword
  \/ ToolGetDetail
  \/ ToolGetSource
  \/ Return

Spec == Init /\ [][Next]_vars

(***************************************************************************)
(* A caller that changes an array it was given.  load, getCategories,      *)
(* searchByCategory and searchBySubCategory hand out the arrays the        *)
(* objects hold, so a change to one of those is a change to the object.    *)
(***************************************************************************)
ForeignRecord ==
  [ tagName |-> "$z", categoryName |-> "Z", categorySubName |-> "z",
    tagDescription |-> "z", categoryLink |-> "/z", tagLink |-> Null,
    tagSampleCode |-> Null, tagHtmlOutputImage |-> Null ]

ForeignElement(kind) == IF kind = "records" THEN ForeignRecord ELSE "Z"

\* array.push(x), array.pop(), array[0] = x
MutatedArray(how, array, x) ==
  IF how = "push" THEN Append(array, x)
  ELSE IF how = "pop" THEN SubSeq(array, 1, Len(array) - 1)
  ELSE IF Len(array) = 0 THEN <<x>>
  ELSE [array EXCEPT ![1] = x]

CallerMutates ==
  \E how \in {"push", "pop", "set"} :
    LET array == MutatedArray(how, ret.val, ForeignElement(ret.kind))
        ref == ret.ref
    IN  /\ started = "ready"
        /\ call # Idle
        /\ call[1] # "mutated"
        /\ ret.kind \in {"records", "names"}
        /\ mutations < MaxMutations
        /\ mutations' = mutations + 1
        /\ call' = <<"mutated">> \o call
        /\ ret' = [ret EXCEPT !.val = array]
        /\ formattedData' =
             IF ref = <<"formattedData">> THEN array ELSE formattedData
        /\ categories' = IF ref = <<"categories">> THEN array ELSE categories
        /\ dbByCategory' =
             IF ref # <<>> /\ ref[1] = "dbByCategory"
             THEN SetProperty(dbByCategory, ref[2], array)
             ELSE dbByCategory
        /\ dbBySubCategory' =
             IF ref # <<>> /\ ref[1] = "dbBySubCategory"
             THEN SetProperty(dbBySubCategory, ref[2],
                              SetProperty(OwnValue(dbBySubCategory, ref[2]),
                                          ref[3], array))
             ELSE dbBySubCategory
        /\ UNCHANGED <<raw, started>>

NextWithMutatingCaller == Next \/ CallerMutates

SpecMutatingCaller == Init /\ [][NextWithMutatingCaller]_vars

(***************************************************************************)
(* Vocabulary of the properties.                                           *)
(***************************************************************************)
InSeq(x, seq) == \E i \in 1..Len(seq) : seq[i] = x

\* c is the categoryName of a loaded Record
KnownCategory(c) ==
  \E i \in 1..Len(formattedData) : formattedData[i].categoryName = c

RecordsOfCategory(c) ==
  LET In(record) == record.categoryName = c
  IN  SelectSeq(formattedData, In)

RecordsOfSubCategory(c, s) ==
  LET In(record) == record.categoryName = c /\ record.categorySubName = s
  IN  SelectSeq(formattedData, In)

IsEmptyArray(v) == v.kind = "records" /\ v.val = <<>>

IsText(v, text) == v.kind = "text" /\ v.val = text

\* C1: a miss never raises: searchBySubCategory on a category that no loaded
\* Record has returns the empty sequence, and the sub-category tool then
\* answers "Error: No tags found".
C1_SubCategoryMissIsEmpty ==
  /\ (call[1] = "searchBySubCategory" /\ ~KnownCategory(call[2]))
       => IsEmptyArray(ret)
  /\ (call[1] = "ms_creator_tag_search_by_sub_category" /\ ~KnownCategory(call[2]))
       => IsText(ret, "Error: No tags found")

(***************************************************************************)
(* What the queries answer on the structures as they were built.           *)
(***************************************************************************)
BuiltRecords == transform(raw)

BuiltSubCategories(c) ==
  LET sub == GetProperty(BuildBySubCategory(BuiltRecords).obj, c)
  IN  IF sub.kind = "own" THEN ObjectKeys(sub.val) ELSE <<>>

BuiltRecordsOfCategory(c) ==
  LET In(record) == record.categoryName = c
  IN  SelectSeq(BuiltRecords, In)

BuiltRecordsOfSubCategory(c, s) ==
  LET In(record) == record.categoryName = c /\ record.categorySubName = s
  IN  SelectSeq(BuiltRecords, In)

BuiltRecordsOfTagName(n) ==
  LET In(record) == record.tagName = n
  IN  SelectSeq(BuiltRecords, In)

\* C2: whatever a caller did to the sequences it was given, a query made
\* later answers as it would have had no caller changed anything.
C2_LaterQueriesUnaffected ==
  /\ call = <<"load">> => ret.val = BuiltRecords
  /\ call = <<"getCategories">> => ret.val = BuildCategories(BuiltRecords)
  /\ call[1] = "getSubCategories" => ret.val = BuiltSubCategories(call[2])
  /\ (call[1] = "searchByCategory" /\ ret.kind = "records")
       => ret.val = BuiltRecordsOfCategory(call[2])
  /\ (call[1] = "searchBySubCategory" /\ ret.kind = "records")
       => ret.val = BuiltRecordsOfSubCategory(call[2], call[3])
  /\ call[1] = "searchByTagName" => ret.val = BuiltRecordsOfTagName(call[2])

\* C3: no call changes the loader or the handler: the flat list, the
\* category list and the two maps stay as construction left them, and every
\* load() returns the same sequence.
C3_CallsChangeNothing ==
  started = "ready" =>
    LET built == BuiltRecords
    IN  /\ formattedData = built
        /\ categories = BuildCategories(built)
        /\ dbByCategory = BuildByCategory(built).obj
        /\ dbBySubCategory = BuildBySubCategory(built).obj
        /\ (call = <<"load">> => ret.val = built)
        /\ (call = <<"formatAsSourceInfo", "load">> =>
              IsText(ret, SourceInfoText(built)))

\* a formatter has run on the flat list that load() returned
C3_Witness ==
  /\ call = <<"formatAsSourceInfo", "load">>
  /\ Len(formattedData) = MaxEntries
  /\ ret.kind = "text"

(***************************************************************************)
(* The flattening of the raw source as it is written: categories in source *)
(* order, the keys of a tags object in the order the source lists them,    *)
(* tag entries in list order.                                              *)
(***************************************************************************)
OptionalField(entry, key) ==
  IF key \in DOMAIN entry THEN <<entry[key]>> ELSE <<>>

SourceRecord(category, key, entry) ==
  [ tagName            |-> entry.tag,
    tagDescription     |-> entry.description,
    tagLink            |-> entry.link,
    categoryName       |-> category.name,
    categoryLink       |-> category.link,
    categorySubName    |-> key,
    tagSampleCode      |-> OptionalField(entry, "sample_code"),
    tagHtmlOutputImage |-> OptionalField(entry, "html_output_image") ]

RECURSIVE FlattenInSourceOrder(_)
FlattenInSourceOrder(source) ==
  IF source = <<>> THEN <<>>
  ELSE LET category == source[1]
           OfKey(k) == [i \in 1..Len(category.tags[k][2]) |->
                          SourceRecord(category, category.tags[k][1],
                                       category.tags[k][2][i])]
       IN  Concat([k \in 1..Len(category.tags) |-> OfKey(k)])
             \o FlattenInSourceOrder(Tail(source))

\* C4: load() returns the in-order flattening of the raw source, one Record
\* per tag entry, each field verbatim, the two optional fields null exactly
\* when absent.
C4_LoadFlattensInSourceOrder ==
  call = <<"load">> => ret.val = FlattenInSourceOrder(raw)

\* C5: for every category c of getCategories(), searchByCategory(c) is
\* non-empty and is exactly the Records of the flat list with categoryName c,
\* in the flat list's order.
C5_SearchByListedCategory ==
  (call[1] = "searchByCategory" /\ InSeq(call[2], categories)) =>
    /\ ret.kind = "records"
    /\ ret.val # <<>>
    /\ \A i \in 1..Len(ret.val) : ret.val[i].categoryName = call[2]
    /\ ret.val = RecordsOfCategory(call[2])

\* a listed category with two different Records has been searched
C5_Witness ==
  /\ call[1] = "searchByCategory"
  /\ InSeq(call[2], categories)
  /\ Len(ret.val) = 2
  /\ ret.val[1] # ret.val[2]

\* C6: for every category c and every s of getSubCategories(c),
\* searchBySubCategory(c, s) is non-empty and all its Records have
\* categoryName c and categorySubName s.
C6_SearchByListedSubCategory ==
  (call[1] = "searchBySubCategory"
     /\ InSeq(call[3], getSubCategories(call[2]).val)) =>
    /\ ret.kind = "records"
    /\ ret.val # <<>>
    /\ \A i \in 1..Len(ret.val) :
         /\ ret.val[i].categoryName = call[2]
         /\ ret.val[i].categorySubName = call[3]

\* one of the two sub-categories of a category has been searched
C6_Witness ==
  /\ call[1] = "searchBySubCategory"
  /\ Len(getSubCategories(call[2]).val) = 2
  /\ InSeq(call[3], getSubCategories(call[2]).val)
  /\ Len(ret.val) = 1

\* k occurs in s: s is some prefix, then k, then some suffix
IsSubstring(k, s) ==
  \E a \in 0..Len(s) :
    /\ a + Len(k) <= Len(s)
    /\ s = SubSeq(s, 1, a) \o k \o SubSeq(s, a + Len(k) + 1, Len(s))

KeywordMatches(record, kw) ==
  \/ IsSubstring(kw, record.tagDescription)
  \/ /\ record.tagHtmlOutputImage # Null
     /\ IsSubstring(kw, record.tagHtmlOutputImage[1])

\* C7: searchByTagDescription(kw) returns, in flat-list order, exactly the
\* Records whose description contains kw or whose non-null output image
\* contains kw (case-sensitive).
C7_KeywordSearch ==
  call[1] = "searchByTagDescription" =>
    LET Hit(record) == KeywordMatches(record, call[2])
    IN  ret.kind = "records" /\ ret.val = SelectSeq(formattedData, Hit)

\* a Record was found by its output image alone, another was not found
C7_Witness ==
  /\ call[1] = "searchByTagDescription"
  /\ Len(ret.val) = 1
  /\ Len(formattedData) = 2
  /\ ~IsSubstring(call[2], ret.val[1].tagDescription)

\* C8: searchByTagName(name) returns, in flat-list order, exactly the Records
\* whose tagName is name (case-sensitive), all of them when the name recurs,
\* none when no Record has it.
C8_TagNameSearch ==
  call[1] = "searchByTagName" =>
    LET Hit(record) == record.tagName = call[2]
    IN  ret.kind = "records" /\ ret.val = SelectSeq(formattedData, Hit)

\* a tag name found under two categories
C8_Witness ==
  /\ call[1] = "searchByTagName"
  /\ Len(ret.val) = 2
  /\ ret.val[1].categoryName # ret.val[2].categoryName

FirstIndex(seq, x) ==
  CHOOSE i \in 1..Len(seq) : seq[i] = x /\ \A j \in 1..(i - 1) : seq[j] # x

\* u lists each value of seq once, in the order of first occurrence in seq
ListsInFirstOccurrenceOrder(u, seq) ==
  /\ {u[i] : i \in 1..Len(u)} = {seq[i] : i \in 1..Len(seq)}
  /\ \A i, j \in 1..Len(u) :
       i < j => FirstIndex(seq, u[i]) < FirstIndex(seq, u[j])

\* C9: getCategories() lists the distinct categoryNames in first-occurrence
\* order of the flat list, and getSubCategories(c) the distinct
\* categorySubNames of c's Records in their first-occurrence order.
C9_ListingsInFirstOccurrenceOrder ==
  /\ call = <<"getCategories">> =>
       ListsInFirstOccurrenceOrder(
         ret.val, [i \in 1..Len(formattedData) |-> formattedData[i].categoryName])
  /\ call[1] = "getSubCategories" =>
       LET of == RecordsOfCategory(call[2])
       IN  ListsInFirstOccurrenceOrder(
             ret.val, [i \in 1..Len(of) |-> of[i].categorySubName])

\* C10: searchByCategory on a string that no loaded Record has as its
\* categoryName returns the empty sequence, formatAsTagInfo of an empty
\* sequence is "Error: No tags found", and so the search-by-category tool
\* answers exactly that text.
C10_CategoryMissIsSentinel ==
  /\ (call[1] = "searchByCategory" /\ ~KnownCategory(call[2]))
       => IsEmptyArray(ret)
  /\ TagInfoText(<<>>) = "Error: No tags found"
  /\ (call[1] = "ms_creator_tag_search_by_category" /\ ~KnownCategory(call[2]))
       => IsText(ret, "Error: No tags found")

(***************************************************************************)
(* The text of formatAsTagInfo.                                            *)
(***************************************************************************)
\* a call that formats Records known from the state: the flat list that
\* load() returned, or the Records a tag name selects
IsTagInfoCall ==
  \/ call = <<"formatAsTagInfo", "load">>
  \/ call[1] = "ms_creator_tag_get_detail"

TagInfoInput ==
  IF call = <<"formatAsTagInfo", "load">> THEN formattedData
  ELSE LET Hit(record) == record.tagName = call[2]
       IN  SelectSeq(formattedData, Hit)

EndsWith(s, p) ==
  Len(s) >= Len(p) /\ SubSeq(s, Len(s) - Len(p) + 1, Len(s)) = p

\* b ends with the line "### Output Example" and one more line
EndsWithOutputExample(b) ==
  LET h == "\n### Output Example\n"
  IN  \E k \in 1..Len(b) :
        /\ k + Len(h) - 1 <= Len(b)
        /\ SubSeq(b, k, k + Len(h) - 1) = h
        /\ ~IsSubstring("\n", SubSeq(b, k + Len(h), Len(b)))

\* what C11 says of the block of one Record
IsBlockOf(b, record) ==
  IF StartsWith(record.tagName, ".list[i]")
  THEN /\ StartsWith(b, "## $item.group" \o record.tagName \o "\n")
       /\ ~IsSubstring("### Output Example", b)
  ELSE /\ StartsWith(b, "## " \o record.tagName \o "\n")
       /\ EndsWithOutputExample(b)

\* text is a block of each Record, in order, one blank line between blocks
RECURSIVE IsBlocksOf(_, _)
IsBlocksOf(text, records) ==
  IF Len(records) = 1 THEN IsBlockOf(text, records[1])
  ELSE \E k \in 1..Len(text) :
         /\ k + 2 < Len(text)
         /\ SubSeq(text, k + 1, k + 2) = "\n\n"
         /\ IsBlockOf(SubSeq(text, 1, k), records[1])
         /\ IsBlocksOf(SubSeq(text, k + 3, Len(text)), Tail(records))

\* C11: formatAsTagInfo renders one block per Record, in record order, with
\* one blank line between blocks; the block of a Record whose tagName starts
\* with ".list[i]" is headed "## $item.group" followed by the tag name and
\* has no "### Output Example" section; the block of any other Record is
\* headed "## " followed by the tag name and ends with an
\* "### Output Example" section.
C11_TagInfoBlocks ==
  (IsTagInfoCall /\ TagInfoInput # <<>>) =>
    ret.kind = "text" /\ IsBlocksOf(ret.val, TagInfoInput)

\* a ".list[i]" Record and another Record have been formatted together
C11_Witness ==
  /\ call = <<"formatAsTagInfo", "load">>
  /\ Len(formattedData) = 2
  /\ StartsWith(formattedData[1].tagName, ".list[i]")
  /\ ~StartsWith(formattedData[2].tagName, ".list[i]")
  /\ ret.kind = "text"

\* formatAsTagInfo was given a single Record whose tagName does not start
\* with ".list[i]" and whose sample code and output image are non-empty
FormatsOnePlainRecord ==
  /\ IsTagInfoCall
  /\ Len(TagInfoInput) = 1
  /\ ~StartsWith(TagInfoInput[1].tagName, ".list[i]")
  /\ TagInfoInput[1].tagSampleCode \notin {Null, Some("")}
  /\ TagInfoInput[1].tagHtmlOutputImage \notin {Null, Some("")}

====
